---------------------------- MODULE Spec2Model ----------------------------
(***************************************************************************)
(* virae: instanced 2D rectangles, shader hot reload.                      *)
(*                                                                         *)
(* The model follows src/src/types.rs (transforms, instance buffer         *)
(* manager), src/src/geo.rs (render groups, view uniforms, shader reload), *)
(* src/src/window.rs (file watcher, resize, render) and the event loop of  *)
(* src/src/main.rs.                                                        *)
(***************************************************************************)
EXTENDS Integers, Sequences, FiniteSets, TLC

(***************************************************************************)
(* Numbers.  An f32 is modelled by the exact quotient n/d, kept in lowest  *)
(* terms with d >= 0.  d = 0 holds the values IEEE division produces from  *)
(* a zero divisor: 1/0 = +inf, -1/0 = -inf, 0/0 = NaN.                     *)
(***************************************************************************)
Abs(x) == IF x < 0 THEN -x ELSE x

Sign(x) == IF x < 0 THEN -1 ELSE IF x > 0 THEN 1 ELSE 0

RECURSIVE Gcd(_, _)
Gcd(a, b) == IF b = 0 THEN a ELSE Gcd(b, a % b)

Q(n, d) ==
    IF d = 0 THEN <<Sign(n), 0>>
    ELSE LET g == Gcd(Abs(n), Abs(d))
         IN  <<(Sign(d) * n) \div g, Abs(d) \div g>>

F(n) == <<n, 1>>

QAdd(a, b) ==
    IF a[2] = 0 /\ b[2] = 0
    THEN (IF a[1] = b[1] THEN a ELSE <<0, 0>>)
    ELSE Q(a[1] * b[2] + b[1] * a[2], a[2] * b[2])

QNeg(a) == <<-a[1], a[2]>>

QSub(a, b) == QAdd(a, QNeg(b))

QMul(a, b) == Q(a[1] * b[1], a[2] * b[2])

QDiv(a, b) == Q(a[1] * b[2], a[2] * b[1])

QLess(a, b) == a[2] # 0 /\ b[2] # 0 /\ a[1] * b[2] < b[1] * a[2]


Zero == F(0)

One == F(1)

Two == F(2)

(***************************************************************************)
(* glam vectors, quaternions and column-major 4x4 matrices.                *)
(***************************************************************************)
Vec3Add(a, b) == <<QAdd(a[1], b[1]), QAdd(a[2], b[2]), QAdd(a[3], b[3])>>

Vec4Scale(v, s) == <<QMul(v[1], s), QMul(v[2], s), QMul(v[3], s), QMul(v[4], s)>>

QuatIdentity == <<Zero, Zero, Zero, One>>

Vec3Zero == <<Zero, Zero, Zero>>

Vec3One == <<One, One, One>>

Mat4Identity ==
    << <<One, Zero, Zero, Zero>>, <<Zero, One, Zero, Zero>>,
       <<Zero, Zero, One, Zero>>, <<Zero, Zero, Zero, One>> >>

\* glam Mat4::quat_to_axes: the three rotated axes of a unit quaternion.
QuatToAxes(q) ==
    LET x == q[1]  y == q[2]  z == q[3]  w == q[4]
        x2 == QAdd(x, x)  y2 == QAdd(y, y)  z2 == QAdd(z, z)
        xx == QMul(x, x2)  xy == QMul(x, y2)  xz == QMul(x, z2)
        yy == QMul(y, y2)  yz == QMul(y, z2)  zz == QMul(z, z2)
        wx == QMul(w, x2)  wy == QMul(w, y2)  wz == QMul(w, z2)
    IN  << <<QSub(One, QAdd(yy, zz)), QAdd(xy, wz), QSub(xz, wy), Zero>>,
           <<QSub(xy, wz), QSub(One, QAdd(xx, zz)), QAdd(yz, wx), Zero>>,
           <<QAdd(xz, wy), QSub(yz, wx), QSub(One, QAdd(xx, yy)), Zero>> >>

\* glam Mat4::from_scale_rotation_translation.
FromScaleRotationTranslation(scale, rotation, translation) ==
    LET ax == QuatToAxes(rotation)
    IN  << Vec4Scale(ax[1], scale[1]), Vec4Scale(ax[2], scale[2]),
           Vec4Scale(ax[3], scale[3]),
           <<translation[1], translation[2], translation[3], One>> >>

\* glam Mat4::orthographic_lh.
OrthographicLh(left, right, bottom, top, near, far) ==
    LET rcp_width == QDiv(One, QSub(right, left))
        rcp_height == QDiv(One, QSub(top, bottom))
        r == QDiv(One, QSub(far, near))
    IN  << <<QAdd(rcp_width, rcp_width), Zero, Zero, Zero>>,
           <<Zero, QAdd(rcp_height, rcp_height), Zero, Zero>>,
           <<Zero, Zero, r, Zero>>,
           <<QMul(QNeg(QAdd(left, right)), rcp_width),
             QMul(QNeg(QAdd(top, bottom)), rcp_height),
             QMul(QNeg(r), near), One>> >>

(***************************************************************************)
(* types.rs: PixelRect and ComponentTransform.  An Option is a sequence of *)
(* length 0 (None) or 1 (Some).                                            *)
(***************************************************************************)
None == <<>>

Some(x) == <<x>>

PixelRect(xy, wh, extent) == [xy |-> xy, wh |-> wh, extent |-> extent]

ComponentTransformDefault ==
    [pixel_rect |-> None, location |-> Vec3Zero, rotation |-> QuatIdentity,
     scale |-> Vec3One]

to_mat4(t) == FromScaleRotationTranslation(t.scale, t.rotation, t.location)

tex_transform_y_flipped(pixel_rect) ==
    LET xy == <<F(pixel_rect.xy[1]), F(pixel_rect.xy[2])>>
        wh == <<F(pixel_rect.wh[1]), F(pixel_rect.wh[2])>>
        extent == <<F(pixel_rect.extent[1]), F(pixel_rect.extent[2])>>
    IN  [pixel_rect |-> Some(pixel_rect),
         location |-> <<QDiv(xy[1], extent[1]),
                        QSub(One, QDiv(xy[2], extent[2])), Zero>>,
         rotation |-> QuatIdentity,
         scale |-> <<QDiv(wh[1], extent[1]), QDiv(wh[2], extent[2]), One>>]

unit_square_transform_y_up(pixel_rect) ==
    LET xy == <<F(pixel_rect.xy[1]), F(pixel_rect.xy[2])>>
        wh == <<F(pixel_rect.wh[1]), F(pixel_rect.wh[2])>>
        extent == <<F(pixel_rect.extent[1]), F(pixel_rect.extent[2])>>
    IN  [pixel_rect |-> Some(pixel_rect),
         location |-> <<QSub(QMul(QDiv(xy[1], extent[1]), Two), One),
                        QSub(QMul(QDiv(xy[2], extent[2]), Two), One),
                        Zero>>,
         rotation |-> QuatIdentity,
         scale |-> <<QMul(QDiv(wh[1], extent[1]), Two),
                     QMul(QDiv(wh[2], extent[2]), Two), One>>]

tex_transform_from_pixel_rect(pixel_rect) ==
    LET xy == <<F(pixel_rect.xy[1]), F(pixel_rect.xy[2])>>
        wh == <<F(pixel_rect.wh[1]), F(pixel_rect.wh[2])>>
        extent == <<F(pixel_rect.extent[1]), F(pixel_rect.extent[2])>>
    IN  [pixel_rect |-> Some(pixel_rect),
         location |-> <<QDiv(xy[1], extent[1]), QDiv(xy[2], extent[2]), Zero>>,
         rotation |-> QuatIdentity,
         scale |-> <<QDiv(wh[1], extent[1]), QDiv(wh[2], extent[2]), One>>]

unit_square_transform_from_pixel_rect(pixel_rect) ==
    LET xy == <<F(pixel_rect.xy[1]), F(pixel_rect.xy[2])>>
        wh == <<F(pixel_rect.wh[1]), F(pixel_rect.wh[2])>>
        extent == <<F(pixel_rect.extent[1]), F(pixel_rect.extent[2])>>
    IN  [pixel_rect |-> Some(pixel_rect),
         location |-> <<QSub(QMul(QDiv(xy[1], extent[1]), Two), One),
                        QSub(One, QMul(QDiv(xy[2], extent[2]), Two)),
                        Zero>>,
         rotation |-> QuatIdentity,
         scale |-> <<QMul(QDiv(wh[1], extent[1]), Two),
                     QMul(QDiv(wh[2], extent[2]), Two), One>>]

(***************************************************************************)
(* types.rs: texture sheets.  A cluster is a grid of sub-sprites inside    *)
(* the sheet's image; all its fields are UVec2.                            *)
(***************************************************************************)
TextureSheetClusterDefinition(label, offset, cluster_size, sub_size, spacing) ==
    [label |-> label, offset |-> offset, cluster_size |-> cluster_size,
     sub_size |-> sub_size, spacing |-> spacing]

\* TextureSheetDefinition::none().
TextureSheetDefinitionNone == [path |-> "", clusters |-> <<>>]

TextureSheetNone == [sheet_info |-> TextureSheetDefinitionNone, dimensions |-> <<0, 0>>]

\* The number of items of (x..n).step_by(step), step > 0: x, x + step, ...
\* as long as they are below n.
RECURSIVE StepByCount(_, _, _)
StepByCount(x, n, step) ==
    IF x >= n THEN 0 ELSE 1 + StepByCount(x + step, n, step)

\* The step of the cluster's grid along x.
StepX(c) == c.sub_size[1] + c.spacing[1]

rc_floor(c) == c.cluster_size[1] \div StepX(c)

\* rc ("row count"): the loop of cluster_sub_transform that counts the items
\* of (0..c.cluster_size.x).step_by(c.sub_size.x + c.spacing.x).
rc(c) == StepByCount(0, c.cluster_size[1], StepX(c))

cluster_sub_transform_swapped(sheet_, cluster_index, sub_index) ==
    LET c == sheet_.sheet_info.clusters[cluster_index + 1]
        row_index == sub_index % rc(c)
        col_index == sub_index \div rc(c)
        x_offset == c.offset[1] + col_index * (c.sub_size[1] + c.spacing[1])
        y_offset == c.offset[2] + row_index * (c.sub_size[2] + c.spacing[2])
    IN  tex_transform_from_pixel_rect(
            PixelRect(<<x_offset, y_offset>>, c.sub_size, sheet_.dimensions))

\* TextureSheet::cluster_sub_transform, past the calls that can panic
\* (cluster_index and sub_index count from 0).
cluster_sub_transform(sheet_, cluster_index, sub_index) ==
    LET c == sheet_.sheet_info.clusters[cluster_index + 1]
        row_index == sub_index \div rc(c)
        col_index == sub_index % rc(c)
        x_offset == c.offset[1] + col_index * (c.sub_size[1] + c.spacing[1])
        y_offset == c.offset[2] + row_index * (c.sub_size[2] + c.spacing[2])
    IN  tex_transform_from_pixel_rect(
            PixelRect(<<x_offset, y_offset>>, c.sub_size, sheet_.dimensions))

(***************************************************************************)
(* wgpu buffers.  A buffer's contents are a sequence of elements of `unit` *)
(* bytes each (16 for a Vec4 column); its size in bytes is unit * Len.     *)
(* Queue::write_buffer refuses a copy that overruns the destination        *)
(* (a validation error, which the default handler turns into a panic).     *)
(***************************************************************************)
SizeOfVec2 == 8

SizeOfVec4 == 16

SizeOfMat4 == 64

create_buffer_init(label, unit, contents) ==
    [label |-> label, unit |-> unit, contents |-> contents]

BufferSize(buffer) == buffer.unit * Len(buffer.contents)

WriteInBounds(buffer, offset, data) ==
    offset + buffer.unit * Len(data) <= BufferSize(buffer)

\* The bytes [offset, offset + unit * Len(data)) take data; all others stay.
write_buffer(buffer, offset, data) ==
    [buffer EXCEPT !.contents =
        [k \in 1..Len(buffer.contents) |->
            LET at == buffer.unit * (k - 1)
            IN  IF at >= offset /\ at < offset + buffer.unit * Len(data)
                THEN data[((at - offset) \div buffer.unit) + 1]
                ELSE buffer.contents[k]]]

(***************************************************************************)
(* types.rs: Instance, InstanceData, InstanceBufferManager.                *)
(***************************************************************************)
Instance(transform, tex_transform, color) ==
    [transform |-> transform, tex_transform |-> tex_transform, color |-> color]

InstanceData(transform, tex_transform, color) ==
    [transform |-> transform, tex_transform |-> tex_transform, color |-> color]

SizeOfInstanceData == SizeOfMat4 + SizeOfMat4 + SizeOfVec4

InstanceDataDefault ==
    InstanceData(Mat4Identity, Mat4Identity, <<One, One, One, One>>)

\* bytemuck::cast_slice of one #[repr(C)] InstanceData: 9 columns of 16 bytes.
cast_slice(d) == d.transform \o d.tex_transform \o <<d.color>>

RECURSIVE Repeat(_, _)
Repeat(s, n) == IF n = 0 THEN <<>> ELSE s \o Repeat(s, n - 1)

\* UNIT_SQUARE_BUFFER_LAYOUT[1]: the per-instance slot's stride and offsets.
InstanceLayout ==
    [array_stride |-> SizeOfInstanceData,
     step_mode |-> "Instance",
     attributes |-> [k \in 1..9 |->
        [offset |-> SizeOfVec4 * (k - 1), shader_location |-> 4 + k,
         format |-> "Float32x4"]]]

VertexLayout ==
    [array_stride |-> 12 + SizeOfVec2,
     step_mode |-> "Vertex",
     attributes |-> << [offset |-> 0, shader_location |-> 0, format |-> "Float32x3"],
                       [offset |-> 12, shader_location |-> 1, format |-> "Float32x2"] >>]

UNIT_SQUARE_BUFFER_LAYOUT == <<VertexLayout, InstanceLayout>>

InstanceBufferManagerNew(max_instances) ==
    [data |-> <<>>,
     buffer |-> create_buffer_init("instance buffer", SizeOfVec4,
                                   Repeat(cast_slice(InstanceDataDefault), max_instances))]

AddOffset(ibm) == Len(ibm.data) * SizeOfInstanceData

add_instance_short_stride(ibm, transform, tex_transform, color) ==
    LET new_data == InstanceData(to_mat4(transform), to_mat4(tex_transform), color)
    IN  [data |-> Append(ibm.data, Instance(transform, tex_transform, color)),
         buffer |-> write_buffer(ibm.buffer, Len(ibm.data) * (SizeOfMat4 + SizeOfMat4),
                                 cast_slice(new_data))]

AddFits(ibm) == WriteInBounds(ibm.buffer, AddOffset(ibm), cast_slice(InstanceDataDefault))

add_instance_at_front(ibm, transform, tex_transform, color) ==
    LET new_data == InstanceData(to_mat4(transform), to_mat4(tex_transform), color)
    IN  [data |-> <<Instance(transform, tex_transform, color)>> \o ibm.data,
         buffer |-> write_buffer(ibm.buffer, AddOffset(ibm), cast_slice(new_data))]

\* The index GeoInstances::add_new returns: that of the record just pushed.
add_new_index(ibm) == Len(ibm.data) - 1

\* add_instance, past the write_buffer call (which panics when ~AddFits).
add_instance(ibm, transform, tex_transform, color) ==
    LET new_data == InstanceData(to_mat4(transform), to_mat4(tex_transform), color)
    IN  [data |-> Append(ibm.data, Instance(transform, tex_transform, color)),
         buffer |-> write_buffer(ibm.buffer, AddOffset(ibm), cast_slice(new_data))]

RecalcInstanceStaleExtent(instance, screen) ==
    IF instance.transform.pixel_rect # None
    THEN LET pr == instance.transform.pixel_rect[1]
         IN  [instance EXCEPT !.transform =
                [unit_square_transform_from_pixel_rect(PixelRect(pr.xy, pr.wh, screen))
                    EXCEPT !.pixel_rect = Some(pr)]]
    ELSE instance

RecalcInstanceAccumulate(instance, screen) ==
    IF instance.transform.pixel_rect # None
    THEN LET pr == instance.transform.pixel_rect[1]
             t == unit_square_transform_from_pixel_rect(PixelRect(pr.xy, pr.wh, screen))
         IN  [instance EXCEPT !.transform =
                [t EXCEPT !.location = Vec3Add(instance.transform.location, @)]]
    ELSE instance

RecalcInstanceAsTex(instance, screen) ==
    IF instance.transform.pixel_rect # None
    THEN LET pr == instance.transform.pixel_rect[1]
         IN  [instance EXCEPT !.transform =
                tex_transform_from_pixel_rect(PixelRect(pr.xy, pr.wh, screen))]
    ELSE instance

\* The record that recalc_screen_instances leaves at one index.
RecalcInstance(instance, screen) ==
    IF instance.transform.pixel_rect # None
    THEN LET pr == instance.transform.pixel_rect[1]
         IN  [instance EXCEPT !.transform =
                unit_square_transform_from_pixel_rect(PixelRect(pr.xy, pr.wh, screen))]
    ELSE instance

RECURSIVE RecalcFrom(_, _, _)
RecalcFrom(ibm, i, screen) ==
    IF i > Len(ibm.data) THEN ibm
    ELSE IF ibm.data[i].transform.pixel_rect # None
    THEN LET inst == RecalcInstance(ibm.data[i], screen)
             new_data == InstanceData(to_mat4(inst.transform),
                                      to_mat4(inst.tex_transform), inst.color)
         IN  RecalcFrom([data |-> [ibm.data EXCEPT ![i] = inst],
                         buffer |-> write_buffer(ibm.buffer,
                                                 (i - 1) * SizeOfInstanceData,
                                                 cast_slice(new_data))],
                        i + 1, screen)
    ELSE RecalcFrom(ibm, i + 1, screen)

recalc_screen_instances_unwritten(ibm, screen) ==
    [ibm EXCEPT !.data = [i \in 1..Len(ibm.data) |-> RecalcInstance(ibm.data[i], screen)]]

recalc_screen_instances(ibm, screen) == RecalcFrom(ibm, 1, screen)

translate_all(ibm, index, delta) ==
    LET moved == [i \in 1..Len(ibm.data) |->
                    [ibm.data[i] EXCEPT !.transform.location = Vec3Add(@, delta)]]
        new_data == InstanceData(to_mat4(moved[index].transform),
                                 to_mat4(moved[index].tex_transform),
                                 moved[index].color)
    IN  [data |-> moved,
         buffer |-> write_buffer(ibm.buffer, (index - 1) * SizeOfInstanceData,
                                 cast_slice(new_data))]

\* Instance::translate and the rewrite of that record's slice (index from 1).
translate(ibm, index, delta) ==
    LET inst == [ibm.data[index] EXCEPT
                    !.transform.location = Vec3Add(@, delta)]
        new_data == InstanceData(to_mat4(inst.transform),
                                 to_mat4(inst.tex_transform), inst.color)
    IN  [data |-> [ibm.data EXCEPT ![index] = inst],
         buffer |-> write_buffer(ibm.buffer, (index - 1) * SizeOfInstanceData,
                                 cast_slice(new_data))]

(***************************************************************************)
(* The file system, as std::fs sees it.  A file is a record                *)
(* [exists, modified, source]; read_to_string fails on a missing file and  *)
(* on contents that are not UTF-8; a source that is not valid WGSL is      *)
(* refused by create_shader_module (a validation error, hence a panic).    *)
(***************************************************************************)
MetadataOk(file) == file.exists

ReadOk(file) == file.exists /\ file.source # "non_utf8"

CompileOk(source) == source \notin {"invalid_wgsl", "non_utf8"}

(***************************************************************************)
(* geo.rs: the objects a render group owns.                                *)
(***************************************************************************)
UNIT_SQUARE_VERTICES ==
    << [location |-> <<Zero, Zero, Zero>>, tex_coords |-> <<Zero, Zero>>],
       [location |-> <<One, Zero, Zero>>, tex_coords |-> <<One, Zero>>],
       [location |-> <<One, QNeg(One), Zero>>, tex_coords |-> <<One, One>>],
       [location |-> <<Zero, QNeg(One), Zero>>, tex_coords |-> <<Zero, One>>] >>

UNIT_SQUARE_INDICES == <<0, 2, 1, 2, 0, 3>>

create_shader_module(label, source) == [label |-> label, source |-> source]

BindGroupLayout ==
    << [binding |-> 0, visibility |-> "VERTEX", min_binding_size |-> SizeOfMat4],
       [binding |-> 1, visibility |-> "FRAGMENT", min_binding_size |-> SizeOfVec2] >>

create_render_pipeline(label, layout, module, format, cull_mode) ==
    [label |-> label,
     layout |-> layout,
     vertex |-> [module |-> module, entry_point |-> "vs_main",
                 buffers |-> UNIT_SQUARE_BUFFER_LAYOUT],
     fragment |-> [module |-> module, entry_point |-> "fs_main",
                   targets |-> <<format>>],
     primitive |-> [cull_mode |-> cull_mode],
     depth_stencil |-> None,
     multiview |-> None]

ViewMatrix ==
    OrthographicLh(QNeg(One), One, QNeg(One), One, QNeg(One), One)

ScreenSize(width, height) == <<F(width), F(height)>>

\* GeoManager::new_unit_square, past the reads that can panic: the new group.
new_unit_square(max_instances, format, width, height, shader_path, source) ==
    LET shader_module == create_shader_module("test shader", source)
        pipeline_layout == [bind_group_layouts |-> <<BindGroupLayout>>]
    IN  [render_pipeline_record |->
            [render_pipeline |->
                create_render_pipeline("unit square pipeline", pipeline_layout,
                                       shader_module, format, Some("Back")),
             pipeline_layout |-> pipeline_layout,
             shader_module |-> shader_module,
             shader_path |-> shader_path,
             format |-> format],
         bind_group |->
            [layout |-> BindGroupLayout,
             entries |-> << [binding |-> 0, resource |-> "view_matrix_uniform.buffer"],
                            [binding |-> 1, resource |-> "screen_size_uniform.buffer"] >>],
         vertex_buffer |->
            create_buffer_init("unit square vertices", 12 + SizeOfVec2,
                               UNIT_SQUARE_VERTICES),
         index_buffer |->
            create_buffer_init("unit square indices", 2, UNIT_SQUARE_INDICES),
         view_matrix_uniform |->
            [matrix |-> ViewMatrix,
             buffer |-> create_buffer_init("unit square view_matrix", SizeOfVec4,
                                           ViewMatrix)],
         screen_size_uniform |->
            [vec |-> ScreenSize(width, height),
             buffer |-> create_buffer_init("unit square screen_resQ", SizeOfVec2,
                                           <<ScreenSize(width, height)>>)],
         instance_buffer_manager |-> InstanceBufferManagerNew(max_instances)]

num_instances_capacity(groups, group_index) ==
    BufferSize(groups[group_index].instance_buffer_manager.buffer)
        \div SizeOfInstanceData

num_instances(groups, group_index) ==
    Len(groups[group_index].instance_buffer_manager.data)

UpdateViewGroup(ig, width, height) ==
    [ig EXCEPT
        !.view_matrix_uniform =
            [matrix |-> ViewMatrix,
             buffer |-> write_buffer(@.buffer, 0, ViewMatrix)],
        !.screen_size_uniform =
            [vec |-> ScreenSize(width, height),
             buffer |-> write_buffer(@.buffer, 0, <<ScreenSize(width, height)>>)]]

update_view_first(groups, width, height) ==
    [g \in 1..Len(groups) |->
        IF g = 1 THEN UpdateViewGroup(groups[g], width, height) ELSE groups[g]]

update_view(groups, width, height) ==
    [g \in 1..Len(groups) |-> UpdateViewGroup(groups[g], width, height)]

ReloadGroupAnew(ig, shader_path, source) ==
    new_unit_square(1, ig.render_pipeline_record.format, 0, 0, shader_path, source)

\* The body of reload_shader's loop for one group that uses shader_path.
ReloadGroup(ig, shader_path, source) ==
    LET module == create_shader_module("shader " \o shader_path, source)
        rpr == ig.render_pipeline_record
    IN  [ig EXCEPT
            !.render_pipeline_record.shader_module = module,
            !.render_pipeline_record.render_pipeline =
                create_render_pipeline("pipeline " \o shader_path,
                                       rpr.pipeline_layout, module, rpr.format, None)]

\* reload_shader from group g on.  st = [groups, rebuilt, panic]: the groups
\* so far, how often each was rebuilt in this poll, and the panic (if any).
RECURSIVE ReloadFrom(_, _, _, _)
ReloadFrom(st, g, shader_path, file) ==
    IF g > Len(st.groups) \/ st.panic # "" THEN st
    ELSE IF st.groups[g].render_pipeline_record.shader_path = shader_path
    THEN IF ~ReadOk(file)
         THEN [st EXCEPT !.panic = "read_to_string"]
         ELSE IF ~CompileOk(file.source)
         THEN [st EXCEPT !.panic = "create_shader_module"]
         ELSE ReloadFrom([st EXCEPT
                            !.groups[g] = ReloadGroup(@, shader_path, file.source),
                            !.rebuilt[g] = @ + 1],
                         g + 1, shader_path, file)
    ELSE ReloadFrom(st, g + 1, shader_path, file)

reload_shader(st, shader_path, file) == ReloadFrom(st, 1, shader_path, file)

(***************************************************************************)
(* window.rs: FileWatcher and Context.                                     *)
(***************************************************************************)
FileWatcherEntry(path, last_modified) ==
    [path |-> path, last_modified |-> last_modified, action |-> "ReloadShader"]

IsNewerOrSame(file, fwe) == file.modified >= fwe.last_modified

\* metadata.modified().unwrap() > fwe.last_modified
IsNewer(file, fwe) == file.modified > fwe.last_modified

\* check_watched_files from entry e on.  The entries are only read.
RECURSIVE CheckFrom(_, _, _, _)
CheckFrom(st, e, entries, fs) ==
    IF e > Len(entries) \/ st.panic # "" THEN st
    ELSE LET fwe == entries[e]
             file == fs[fwe.path]
         IN  IF ~MetadataOk(file)
             THEN [st EXCEPT !.panic = "metadata"]
             ELSE IF IsNewer(file, fwe)
             THEN CheckFrom(reload_shader(st, fwe.path, file), e + 1, entries, fs)
             ELSE CheckFrom(st, e + 1, entries, fs)

check_watched_files(groups, entries, fs) ==
    CheckFrom([groups |-> groups,
               rebuilt |-> [g \in 1..Len(groups) |-> 0],
               panic |-> ""],
              1, entries, fs)

\* The draw of group g (from 1) that Context::render records in the pass.  The
\* pipeline, bind group and buffers are the group's own objects, read when the
\* pass is submitted at the end of render.
DrawIndexed(groups, g) ==
    [group |-> g,
     pipeline |-> groups[g].render_pipeline_record.render_pipeline,
     indices |-> 6, base_vertex |-> 0,
     instances |-> num_instances(groups, g)]

\* Context::render: the frame submitted when instance_groups[0] exists.
render(groups, cfg) ==
    [resolution |-> <<cfg.width, cfg.height>>,
     draws |-> <<DrawIndexed(groups, 1)>>,
     text |-> TRUE]

(***************************************************************************)
(* The mutexes of the shared handles.  Context keeps device, queue,        *)
(* surface and config each in an Arc<Mutex<..>>.  What a function does to  *)
(* them is a sequence of events: lock() of a mutex, the drop of its guard  *)
(* (explicit, or at the end of the function), and a use of the handle      *)
(* through its guard.  std's Mutex is not reentrant: lock() on a mutex the *)
(* thread holds never returns (it deadlocks or panics).                    *)
(***************************************************************************)
Lock(m) == [kind |-> "lock", mutex |-> m]

Unlock(m) == [kind |-> "unlock", mutex |-> m]

Use(m) == [kind |-> "use", mutex |-> m]

Uses(m, n) == [i \in 1..n |-> Use(m)]

NoLocks == [held |-> {}, fault |-> ""]

\* The mutexes held after the events, and the first breach among them.
RECURSIVE RunLocks(_, _)
RunLocks(l, events) ==
    IF events = <<>> \/ l.fault # "" THEN l
    ELSE LET e == Head(events)
         IN  IF e.kind = "lock"
             THEN IF e.mutex \in l.held
                  THEN [l EXCEPT !.fault = "relock"]
                  ELSE RunLocks([l EXCEPT !.held = @ \cup {e.mutex}], Tail(events))
             ELSE IF e.kind = "unlock"
             THEN RunLocks([l EXCEPT !.held = @ \ {e.mutex}], Tail(events))
             ELSE IF e.mutex \notin l.held
             THEN [l EXCEPT !.fault = "unguarded"]
             ELSE RunLocks(l, Tail(events))

\* InstanceBufferManager::new: create_buffer_init under the device guard.
LocksOfInstanceBufferManagerNew ==
    <<Lock("device"), Use("device"), Unlock("device")>>

\* add_instance: write_buffer under the queue guard.
LocksOfAddInstance == <<Lock("queue"), Use("queue"), Unlock("queue")>>

\* recalc_screen_instances: one write_buffer per record with a cached rect.
LocksOfRecalcScreenInstances(ibm) ==
    <<Lock("queue")>>
        \o Uses("queue", Cardinality({i \in 1..Len(ibm.data) :
                                        ibm.data[i].transform.pixel_rect # None}))
        \o <<Unlock("queue")>>

\* update_view: two write_buffer calls per group.
LocksOfUpdateView(groups) ==
    <<Lock("queue")>> \o Uses("queue", 2 * Len(groups)) \o <<Unlock("queue")>>

\* reload_shader: a shader module and a pipeline per group of the path.
LocksOfReloadShader(groups, shader_path) ==
    <<Lock("device")>>
        \o Uses("device",
                2 * Cardinality({g \in 1..Len(groups) :
                    groups[g].render_pipeline_record.shader_path = shader_path}))
        \o <<Unlock("device")>>

LocksOfNewUnitSquareGuardKept ==
    <<Lock("device")>> \o Uses("device", 9) \o LocksOfInstanceBufferManagerNew
        \o <<Unlock("device")>>

\* new_unit_square: nine objects created under the device guard, the guard
\* dropped, then InstanceBufferManager::new.
LocksOfNewUnitSquare ==
    <<Lock("device")>> \o Uses("device", 9) \o <<Unlock("device")>>
        \o LocksOfInstanceBufferManagerNew

\* check_watched_files from entry e on: a reload_shader per newer file.
RECURSIVE LocksOfCheckFrom(_, _, _, _)
LocksOfCheckFrom(groups, e, entries, fs) ==
    IF e > Len(entries) THEN <<>>
    ELSE LET fwe == entries[e]
             file == fs[fwe.path]
         IN  IF ~MetadataOk(file) THEN <<>>
             ELSE IF IsNewer(file, fwe)
             THEN LocksOfReloadShader(groups, fwe.path)
                      \o LocksOfCheckFrom(groups, e + 1, entries, fs)
             ELSE LocksOfCheckFrom(groups, e + 1, entries, fs)

LocksOfCheckWatchedFiles(groups, entries, fs) ==
    LocksOfCheckFrom(groups, 1, entries, fs)

\* TextCollection::prepare: the text renderer uses device and queue.
LocksOfPrepare ==
    <<Lock("device"), Lock("queue"), Use("device"), Use("queue"),
      Unlock("queue"), Unlock("device")>>

\* Context::resize: surface.configure(&device, &config), then update_view.
LocksOfResize(groups) ==
    <<Lock("device"), Lock("config"), Lock("surface"),
      Use("surface"), Use("device"), Use("config")>>
        \o LocksOfUpdateView(groups)
        \o <<Unlock("surface"), Unlock("config"), Unlock("device")>>

\* Context::render: config, prepare, then device, queue and surface for the
\* frame, the encoder and the submit.
LocksOfRender ==
    <<Lock("config"), Use("config")>> \o LocksOfPrepare
        \o <<Lock("device"), Lock("queue"), Lock("surface"),
             Use("surface"), Use("device"), Use("queue"),
             Unlock("surface"), Unlock("queue"), Unlock("device"),
             Unlock("config")>>

(***************************************************************************)
(* Bounds and inputs.                                                      *)
(***************************************************************************)
MaxGroups == 2

MaxEntries == 2

MaxCapacity == 2

MaxModified == 1

MaxCoord == 1

FiredCap == 2

Paths == {"a.wgsl", "b.wgsl"}

Sources == {"wgsl1", "wgsl2", "invalid_wgsl", "non_utf8"}

Extents == {<<4, 2>>, <<8, 4>>}

InitialExtent == <<4, 2>>

\* The sizes and extents of SpecExtent: a window can be resized to, and a
\* recalc be called with, a width or a height of 0.
ExtentsOrZero == Extents \cup {<<0, 2>>, <<4, 0>>}

SwapchainFormat == "Bgra8UnormSrgb"

Black == <<Zero, Zero, Zero, One>>

White == <<One, One, One, One>>

ColorInputs == {Black, White}

TexInput == tex_transform_from_pixel_rect(PixelRect(<<1, 0>>, <<1, 1>>, <<2, 2>>))

\* The transforms a caller passes to add_new: one built from a pixel rect
\* against the window's extent (main.rs 32-37), or one with no rect.
TransformInputs(cfg) ==
    {ComponentTransformDefault,
     unit_square_transform_from_pixel_rect(
        PixelRect(<<1, 1>>, <<2, 1>>, <<cfg.width, cfg.height>>))}

DeltaInputs == {<<Q(1, 2), Zero, Zero>>}

MaxClusters == 2

MaxSubIndex == 24

MaxRects == 3

\* The pixel rects of SpecRect: 32x32 rects on a 32 px grid against a
\* 256x256 extent (all inside it) and against a 64x48 extent (some reach
\* past its right or bottom edge).
RectInputs ==
    {PixelRect(<<x, y>>, <<32, 32>>, e) :
        x \in {0, 32, 64}, y \in {0, 32}, e \in {<<256, 256>>, <<64, 48>>}}

\* The clusters of the sheets: the match3 sheet of examples/testing (32x32
\* sprites, 1 px between them), a 128x48 grid of 16x16 sprites, a small
\* cluster whose width is no multiple of its step, one of width 0, one
\* whose step is 0, and one of width 20 holding 16 px sprites.
ClusterInputs ==
    {TextureSheetClusterDefinition("match3", <<4, 4>>, <<197, 296>>, <<32, 32>>, <<1, 1>>),
     TextureSheetClusterDefinition("grid", <<0, 0>>, <<128, 48>>, <<16, 16>>, <<0, 0>>),
     TextureSheetClusterDefinition("small", <<1, 0>>, <<5, 2>>, <<2, 1>>, <<1, 0>>),
     TextureSheetClusterDefinition("empty", <<0, 0>>, <<0, 4>>, <<2, 2>>, <<0, 0>>),
     TextureSheetClusterDefinition("flat", <<0, 0>>, <<4, 4>>, <<0, 2>>, <<0, 0>>),
     TextureSheetClusterDefinition("partial", <<0, 0>>, <<20, 16>>, <<16, 16>>, <<0, 0>>)}

DimensionInputs == {<<256, 512>>}

\* The sheets: 1..MaxClusters clusters over an image.
SheetInputs ==
    {[sheet_info |-> [path |-> "sheet.png", clusters |-> cs], dimensions |-> d] :
        cs \in UNION {[1..n -> ClusterInputs] : n \in 1..MaxClusters},
        d \in DimensionInputs}

(***************************************************************************)
(* State.  config, geos and file_watcher are the Context's fields; files   *)
(* is the file system; panic is "" while the process runs and names the    *)
(* failed call once it has aborted.  last, rebuilt, fired and frame record *)
(* what has happened: the latest operation, how often the latest poll      *)
(* rebuilt each group, in how many polls (counted up to FiredCap) each     *)
(* path was reloaded since its file was last written, and the frame the    *)
(* latest render submitted.  sheet is a group's TextureSheet and sub the   *)
(* latest call of cluster_sub_transform on it that returned: its           *)
(* arguments, the column count it used and the transform it returned.      *)
(* locks holds the mutexes the main thread holds and the first breach of   *)
(* their discipline, if any.                                               *)
(***************************************************************************)
VARIABLES config, geos, file_watcher, files, panic, last, rebuilt, fired, frame,
          sheet, sub, locks

vars == <<config, geos, file_watcher, files, panic, last, rebuilt, fired, frame,
          sheet, sub, locks>>

InitialConfig ==
    [format |-> SwapchainFormat, width |-> InitialExtent[1],
     height |-> InitialExtent[2]]

InitialFiles ==
    [p \in Paths |-> [exists |-> TRUE, modified |-> 0, source |-> "wgsl1"]]

\* Context::new: no group, no watched path, no frame yet.
Init ==
    /\ config = InitialConfig
    /\ geos = <<>>
    /\ file_watcher = <<>>
    /\ files = InitialFiles
    /\ panic = ""
    /\ last = "new"
    /\ rebuilt = <<>>
    /\ fired = [p \in Paths |-> 0]
    /\ frame = None
    /\ sheet = TextureSheetNone
    /\ sub = None
    /\ locks = NoLocks

\* main.rs 23-25: new_unit_square with the surface configuration's values.
NewUnitSquare(max_instances, shader_path) ==
    /\ panic = ""
    /\ Len(geos) < MaxGroups
    /\ last' = "new_unit_square"
    /\ IF ~ReadOk(files[shader_path])
       THEN panic' = "read_to_string" /\ UNCHANGED <<geos, rebuilt>>
       ELSE IF ~CompileOk(files[shader_path].source)
       THEN panic' = "create_shader_module" /\ UNCHANGED <<geos, rebuilt>>
       ELSE /\ geos' = Append(geos,
                  new_unit_square(max_instances, config.format, config.width,
                                  config.height, shader_path,
                                  files[shader_path].source))
            /\ rebuilt' = Append(rebuilt, 0)
            /\ UNCHANGED panic
    /\ UNCHANGED <<config, file_watcher, files, fired, frame, sheet, sub, locks>>

\* FileWatcher::add_path.
AddPath(path) ==
    /\ panic = ""
    /\ Len(file_watcher) < MaxEntries
    /\ last' = "add_path"
    /\ IF ~MetadataOk(files[path])
       THEN panic' = "metadata" /\ UNCHANGED file_watcher
       ELSE /\ file_watcher' =
                Append(file_watcher, FileWatcherEntry(path, files[path].modified))
            /\ UNCHANGED panic
    /\ UNCHANGED <<config, geos, files, rebuilt, fired, frame, sheet, sub, locks>>

\* GeoInstances::add_new -> InstanceBufferManager::add_instance.
AddNew(g, transform, tex_transform, color) ==
    /\ panic = ""
    /\ last' = "add"
    /\ IF ~AddFits(geos[g].instance_buffer_manager)
       THEN panic' = "write_buffer" /\ UNCHANGED geos
       ELSE /\ geos' = [geos EXCEPT ![g].instance_buffer_manager =
                            add_instance(@, transform, tex_transform, color)]
            /\ UNCHANGED panic
    /\ UNCHANGED <<config, file_watcher, files, rebuilt, fired, frame, sheet, sub, locks>>

\* data[index].translate(delta), examples/shmuppin/main.rs 142-145: indexing
\* the Vec past its end panics before translate is entered.
Translate(g, index, delta) ==
    /\ panic = ""
    /\ last' = "translate"
    /\ IF index > Len(geos[g].instance_buffer_manager.data)
       THEN panic' = "index out of bounds" /\ UNCHANGED geos
       ELSE /\ LET x == QAdd(geos[g].instance_buffer_manager.data[index]
                                .transform.location[1], delta[1])
               IN  ~QLess(F(MaxCoord), x)
            /\ geos' = [geos EXCEPT ![g].instance_buffer_manager =
                            translate(@, index, delta)]
            /\ UNCHANGED panic
    /\ UNCHANGED <<config, file_watcher, files, rebuilt, fired, frame, sheet, sub, locks>>

\* GeoInstances::recalc_screen_instances.
RecalcScreenInstances(g, screen) ==
    /\ panic = ""
    /\ last' = "recalc"
    /\ geos' = [geos EXCEPT ![g].instance_buffer_manager =
                    recalc_screen_instances(@, screen)]
    /\ UNCHANGED <<config, file_watcher, files, panic, rebuilt, fired, frame, sheet, sub, locks>>

\* WindowEvent::Resized -> Context::resize.
Resized(size) ==
    /\ panic = ""
    /\ last' = "resize"
    /\ config' = [config EXCEPT !.width = size[1], !.height = size[2]]
    /\ \E configured \in (IF size[1] = 0 \/ size[2] = 0 THEN {TRUE, FALSE}
                          ELSE {TRUE}) :
          IF configured
          THEN geos' = update_view(geos, config'.width, config'.height)
                  /\ UNCHANGED panic
          ELSE panic' = "surface.configure" /\ UNCHANGED geos
    /\ UNCHANGED <<file_watcher, files, rebuilt, fired, frame, sheet, sub, locks>>

RedrawRequestedDrawFirst ==
    /\ panic = ""
    /\ last' = "redraw"
    /\ LET st == check_watched_files(geos, file_watcher, files)
       IN  /\ geos' = st.groups
           /\ rebuilt' = st.rebuilt
           /\ fired' = [p \in Paths |->
                IF \E g \in 1..Len(geos) :
                      /\ geos[g].render_pipeline_record.shader_path = p
                      /\ st.rebuilt[g] > 0
                THEN (IF fired[p] < FiredCap THEN fired[p] + 1 ELSE fired[p])
                ELSE fired[p]]
           /\ IF Len(geos) = 0
              THEN panic' = "index out of bounds" /\ UNCHANGED frame
              ELSE frame' = Some(render(geos, config)) /\ panic' = st.panic
    /\ UNCHANGED <<config, file_watcher, files, sheet, sub, locks>>

\* WindowEvent::RedrawRequested -> Context::update, then Context::render.
RedrawRequested ==
    /\ panic = ""
    /\ last' = "redraw"
    /\ LET st == check_watched_files(geos, file_watcher, files)
       IN  /\ geos' = st.groups
           /\ rebuilt' = st.rebuilt
           /\ fired' = [p \in Paths |->
                IF \E g \in 1..Len(geos) :
                      /\ geos[g].render_pipeline_record.shader_path = p
                      /\ st.rebuilt[g] > 0
                THEN (IF fired[p] < FiredCap THEN fired[p] + 1 ELSE fired[p])
                ELSE fired[p]]
           /\ IF st.panic # ""
              THEN panic' = st.panic /\ UNCHANGED frame
              ELSE IF Len(st.groups) = 0
              THEN panic' = "index out of bounds" /\ UNCHANGED frame
              ELSE frame' = Some(render(st.groups, config)) /\ UNCHANGED panic
    /\ UNCHANGED <<config, file_watcher, files, sheet, sub, locks>>

\* Another process writes the shader file (or only touches it).
WriteFile(path, source) ==
    /\ panic = ""
    /\ files[path].modified < MaxModified
    /\ files' = [files EXCEPT ![path] =
                    [exists |-> TRUE, modified |-> @.modified + 1, source |-> source]]
    /\ fired' = [fired EXCEPT ![path] = 0]
    /\ last' = "write_file"
    /\ UNCHANGED <<config, geos, file_watcher, panic, rebuilt, frame, sheet, sub, locks>>

\* Another process removes the shader file.
DeleteFile(path) ==
    /\ panic = ""
    /\ files[path].exists
    /\ files' = [files EXCEPT ![path].exists = FALSE, ![path].source = ""]
    /\ last' = "delete_file"
    /\ UNCHANGED <<config, geos, file_watcher, panic, rebuilt, fired, frame, sheet, sub, locks>>

(***************************************************************************)
(* Spec: the hot-reload loop.  Groups are created and paths registered,    *)
(* shader files change on disk, and every redraw polls the watcher and     *)
(* renders.                                                                *)
(***************************************************************************)
Next ==
    \/ \E p \in Paths : NewUnitSquare(1, p)
    \/ \E p \in Paths : AddPath(p)
    \/ \E g \in 1..Len(geos) : AddNew(g, ComponentTransformDefault, TexInput, Black)
    \/ RedrawRequested
    \/ \E p \in Paths, s \in Sources : WriteFile(p, s)
    \/ \E p \in Paths : DeleteFile(p)

Spec == Init /\ [][Next]_vars

(***************************************************************************)
(* SpecStore: the instance store of one render group, created as in        *)
(* main.rs 23-25 with a capacity of 1..MaxCapacity records.                *)
(***************************************************************************)
InitStore ==
    /\ config = InitialConfig
    /\ \E m \in 1..MaxCapacity :
          geos = <<new_unit_square(m, InitialConfig.format, InitialConfig.width,
                                   InitialConfig.height, "a.wgsl", "wgsl1")>>
    /\ file_watcher = <<>>
    /\ files = InitialFiles
    /\ panic = ""
    /\ last = "new_unit_square"
    /\ rebuilt = <<0>>
    /\ fired = [p \in Paths |-> 0]
    /\ frame = None
    /\ sheet = TextureSheetNone
    /\ sub = None
    /\ locks = NoLocks

NextStore ==
    \/ \E g \in 1..Len(geos), t \in TransformInputs(config), c \in ColorInputs :
          AddNew(g, t, TexInput, c)
    \/ \E g \in 1..Len(geos) :
          \E i \in 1..Len(geos[g].instance_buffer_manager.data) + 1, d \in DeltaInputs :
             Translate(g, i, d)
    \/ \E g \in 1..Len(geos), e \in Extents : RecalcScreenInstances(g, e)
    \/ \E e \in Extents : Resized(e)

SpecStore == InitStore /\ [][NextStore]_vars

(***************************************************************************)
(* SpecIndex: the instance store of one group next to the hot-reload loop  *)
(* of that group's shader.                                                 *)
(***************************************************************************)
\* main.rs 23-26: one group created and its shader path registered.
InitIndex ==
    /\ config = InitialConfig
    /\ geos = <<new_unit_square(MaxCapacity, InitialConfig.format, InitialConfig.width,
                                InitialConfig.height, "a.wgsl", "wgsl1")>>
    /\ file_watcher = <<FileWatcherEntry("a.wgsl", InitialFiles["a.wgsl"].modified)>>
    /\ files = InitialFiles
    /\ panic = ""
    /\ last = "add_path"
    /\ rebuilt = <<0>>
    /\ fired = [p \in Paths |-> 0]
    /\ frame = None
    /\ sheet = TextureSheetNone
    /\ sub = None
    /\ locks = NoLocks

NextIndex ==
    \/ \E g \in 1..Len(geos), t \in TransformInputs(config) :
          AddNew(g, t, TexInput, Black)
    \/ \E g \in 1..Len(geos) :
          \E i \in 1..Len(geos[g].instance_buffer_manager.data), d \in DeltaInputs :
             Translate(g, i, d)
    \/ \E g \in 1..Len(geos), e \in Extents : RecalcScreenInstances(g, e)
    \/ \E e \in Extents : Resized(e)
    \/ WriteFile("a.wgsl", "wgsl2")
    \/ RedrawRequested

SpecIndex == InitIndex /\ [][NextIndex]_vars

(***************************************************************************)
(* SpecView: groups, resizes and frames.                                   *)
(***************************************************************************)
NextView ==
    \/ \E p \in Paths : NewUnitSquare(1, p)
    \/ \E g \in 1..Len(geos) : AddNew(g, ComponentTransformDefault, TexInput, Black)
    \/ \E e \in Extents : Resized(e)
    \/ RedrawRequested

SpecView == Init /\ [][NextView]_vars

(***************************************************************************)
(* SpecAtlas: a texture sheet and the sub-sprite lookups on it.            *)
(***************************************************************************)
\* TextureSheet::cluster_sub_transform.  Indexing the clusters past their
\* end, step_by(0) and the division by a column count of 0 panic.
ClusterSubTransform(cluster_index, sub_index) ==
    /\ panic = ""
    /\ last' = "cluster_sub_transform"
    /\ IF cluster_index >= Len(sheet.sheet_info.clusters)
       THEN panic' = "index out of bounds" /\ UNCHANGED sub
       ELSE LET c == sheet.sheet_info.clusters[cluster_index + 1]
            IN  IF StepX(c) = 0
                THEN panic' = "step_by" /\ UNCHANGED sub
                ELSE IF rc(c) = 0
                THEN panic' = "divide by zero" /\ UNCHANGED sub
                ELSE /\ sub' = Some([cluster_index |-> cluster_index,
                                     sub_index |-> sub_index,
                                     rc |-> rc(c),
                                     transform |->
                                        cluster_sub_transform(sheet, cluster_index,
                                                              sub_index)])
                     /\ UNCHANGED panic
    /\ UNCHANGED <<config, geos, file_watcher, files, rebuilt, fired, frame, sheet, locks>>

InitAtlas ==
    /\ config = InitialConfig
    /\ geos = <<>>
    /\ file_watcher = <<>>
    /\ files = InitialFiles
    /\ panic = ""
    /\ last = "new"
    /\ rebuilt = <<>>
    /\ fired = [p \in Paths |-> 0]
    /\ frame = None
    /\ sheet \in SheetInputs
    /\ sub = None
    /\ locks = NoLocks

NextAtlas ==
    \E cluster_index \in 0..MaxClusters, sub_index \in 0..MaxSubIndex :
        ClusterSubTransform(cluster_index, sub_index)

SpecAtlas == InitAtlas /\ [][NextAtlas]_vars

(***************************************************************************)
(* SpecLocks: the program of main.rs with the mutexes tracked.  The setup  *)
(* block holds the config guard while it creates groups, registers paths   *)
(* and adds instances; the event loop then resizes, redraws and recalcs.   *)
(***************************************************************************)
\* An operation whose body makes the events.  When they leave the mutexes
\* as they were the operation takes effect; otherwise the breach, or the
\* guard left behind, is recorded and the thread goes no further.
Guarded(events, Operation) ==
    /\ locks.fault = ""
    /\ IF RunLocks(locks, events) = locks
       THEN Operation
       ELSE /\ locks' = RunLocks(locks, events)
            /\ UNCHANGED <<config, geos, file_watcher, files, panic, last, rebuilt,
                           fired, frame, sheet, sub>>

\* main.rs 22: let config = context.config.lock().unwrap().
SetupLock ==
    /\ panic = ""
    /\ last = "new"
    /\ locks.fault = ""
    /\ locks' = RunLocks(locks, <<Lock("config")>>)
    /\ last' = "lock_config"
    /\ UNCHANGED <<config, geos, file_watcher, files, panic, rebuilt, fired, frame,
                   sheet, sub>>

\* main.rs 74: the setup block ends and drops the config guard.
SetupDrop ==
    /\ panic = ""
    /\ locks.fault = ""
    /\ "config" \in locks.held
    /\ Len(geos) > 0
    /\ locks' = RunLocks(locks, <<Unlock("config")>>)
    /\ last' = "drop_config"
    /\ UNCHANGED <<config, geos, file_watcher, files, panic, rebuilt, fired, frame,
                   sheet, sub>>

InSetup == "config" \in locks.held

InLoop == last # "new" /\ locks.held = {}

NextLocks ==
    \/ SetupLock
    \/ InSetup /\ Guarded(LocksOfNewUnitSquare, NewUnitSquare(1, "a.wgsl"))
    \/ \E p \in Paths : InSetup /\ Guarded(<<>>, AddPath(p))
    \/ \E g \in 1..Len(geos), t \in TransformInputs(config) :
          InSetup /\ Guarded(LocksOfAddInstance, AddNew(g, t, TexInput, Black))
    \/ SetupDrop
    \/ \E e \in Extents : InLoop /\ Guarded(LocksOfResize(geos), Resized(e))
    \/ \E g \in 1..Len(geos) :
          InLoop /\ Guarded(LocksOfRecalcScreenInstances(
                                geos[g].instance_buffer_manager),
                            RecalcScreenInstances(g, <<config.width, config.height>>))
    \/ InLoop /\ locks.fault = "" /\ WriteFile("a.wgsl", "wgsl2")
    \/ InLoop /\ Guarded(LocksOfCheckWatchedFiles(geos, file_watcher, files)
                            \o LocksOfRender,
                         RedrawRequested)

SpecLocks == Init /\ [][NextLocks]_vars

(***************************************************************************)
(* SpecExtent: the instance store of one group under adds, resizes and     *)
(* recalcs whose extent may have a zero component.                         *)
(***************************************************************************)
NextExtent ==
    \/ \E t \in TransformInputs(config) : AddNew(1, t, TexInput, White)
    \/ \E e \in ExtentsOrZero : RecalcScreenInstances(1, e)
    \/ \E e \in ExtentsOrZero : Resized(e)

SpecExtent == InitStore /\ [][NextExtent]_vars

(***************************************************************************)
(* SpecRect: one render group of capacity MaxRects, filled with records    *)
(* whose two transforms are built from pixel rects, as main.rs 29-49 does. *)
(***************************************************************************)
InitRect ==
    /\ config = InitialConfig
    /\ geos = <<new_unit_square(MaxRects, InitialConfig.format, InitialConfig.width,
                                InitialConfig.height, "a.wgsl", "wgsl1")>>
    /\ file_watcher = <<>>
    /\ files = InitialFiles
    /\ panic = ""
    /\ last = "new_unit_square"
    /\ rebuilt = <<0>>
    /\ fired = [p \in Paths |-> 0]
    /\ frame = None
    /\ sheet = TextureSheetNone
    /\ sub = None
    /\ locks = NoLocks

NextRect ==
    \E r \in RectInputs :
        AddNew(1, unit_square_transform_from_pixel_rect(r),
               tex_transform_from_pixel_rect(r), White)

SpecRect == InitRect /\ [][NextRect]_vars

(***************************************************************************)
(* Properties of the instance store (SpecStore).                           *)
(***************************************************************************)
Store(g) == geos[g].instance_buffer_manager

\* The 16-byte column at byte offset `at` of a buffer's contents.
ColumnAt(contents, at) == contents[(at \div SizeOfVec4) + 1]

\* The nine columns a record occupies: transform, uv transform, color.
Packed(inst) ==
    LET m == FromScaleRotationTranslation(inst.transform.scale,
                                          inst.transform.rotation,
                                          inst.transform.location)
        t == FromScaleRotationTranslation(inst.tex_transform.scale,
                                          inst.tex_transform.rotation,
                                          inst.tex_transform.location)
    IN  <<m[1], m[2], m[3], m[4], t[1], t[2], t[3], t[4], inst.color>>

\* Slot i (from 0) of the buffer holds the packed form of `inst`.
SlotHolds(contents, i, inst) ==
    \A k \in 0..8 : ColumnAt(contents, i * 144 + 16 * k) = Packed(inst)[k + 1]

\* C1: after add, translate and recalc, in every order, slot i of the
\* instance buffer holds the packed form of CPU record i, for every i below
\* the length: no change of a record is left unwritten.
C1_LockStep ==
    \A g \in 1..Len(geos) :
        \A i \in 1..Len(Store(g).data) :
            SlotHolds(Store(g).buffer.contents, i - 1, Store(g).data[i])

\* C1 witness: a recalc has just run on a store of two records of which one
\* has no cached rect and was translated away from the origin.
C1_Witness ==
    /\ last = "recalc"
    /\ Len(Store(1).data) = 2
    /\ \E i, j \in 1..2 :
          /\ Store(1).data[i].transform.pixel_rect = None
          /\ Store(1).data[i].transform.location # Vec3Zero
          /\ Store(1).data[j].transform.pixel_rect # None

\* C2: an add that fits appends exactly one record at position n, writes
\* its packed form to bytes [144 n, 144 (n + 1)) (144 is also the stride of
\* the per-instance vertex slot), and leaves every other record, every other
\* byte and the rest of the group as they were; slots do not overlap.
C2_AddAppends ==
    [][\A g \in 1..Len(geos) :
        (last' = "add" /\ panic' = "" /\ geos'[g] # geos[g]) =>
            LET old == geos[g].instance_buffer_manager
                new == geos'[g].instance_buffer_manager
                n == Len(old.data)
            IN  /\ Len(new.data) = n + 1
                /\ \A i \in 1..n : new.data[i] = old.data[i]
                /\ \E t \in TransformInputs(config), c \in ColorInputs :
                      new.data[n + 1] = Instance(t, TexInput, c)
                /\ SizeOfInstanceData = 144
                /\ UNIT_SQUARE_BUFFER_LAYOUT[2].array_stride = 144
                /\ Len(new.buffer.contents) = Len(old.buffer.contents)
                /\ \A k \in 1..Len(old.buffer.contents) :
                      LET at == 16 * (k - 1)
                      IN  IF 144 * n <= at /\ at < 144 * (n + 1)
                          THEN new.buffer.contents[k] =
                                  Packed(new.data[n + 1])[((at - 144 * n) \div 16) + 1]
                          ELSE new.buffer.contents[k] = old.buffer.contents[k]
                /\ geos' = [geos EXCEPT ![g].instance_buffer_manager = new]
                /\ \A i \in 0..n : \A j \in 0..n :
                      i < j => i * SizeOfInstanceData + SizeOfInstanceData
                                  <= j * SizeOfInstanceData]_vars

\* C2 witness: an add has just appended the second record of a store.
C2_Witness ==
    /\ last = "add"
    /\ panic = ""
    /\ Len(Store(1).data) = 2

\* C3 (as claimed): a store never holds more records than its buffer has
\* room for, and an add on a full store is rejected or reallocates: it never
\* issues a write at or beyond the end of the buffer.
C3_CapacitySafe ==
    /\ \A g \in 1..Len(geos) :
          Len(Store(g).data) * 144 <= BufferSize(Store(g).buffer)
    /\ panic # "write_buffer"

\* C9 (as claimed): when resize returns, every record with a cached rect has
\* the transform of that rect against the new extent, in the list and in
\* its buffer slot.
C9_ResizeRecalcs ==
    last = "resize" =>
        \A g \in 1..Len(geos) :
            \A i \in 1..Len(Store(g).data) :
                LET inst == Store(g).data[i]
                IN  inst.transform.pixel_rect # None =>
                        LET pr == inst.transform.pixel_rect[1]
                            want == unit_square_transform_from_pixel_rect(
                                        PixelRect(pr.xy, pr.wh,
                                                  <<config.width, config.height>>))
                        IN  /\ inst.transform = want
                            /\ SlotHolds(Store(g).buffer.contents, i - 1,
                                         [inst EXCEPT !.transform = want])

(***************************************************************************)
(* Properties of the hot-reload loop (Spec).                               *)
(***************************************************************************)
\* The watched paths whose file exists with a modification time strictly
\* after the one recorded in some entry for it.
Newer(entries, fs) ==
    {entries[e].path : e \in {k \in 1..Len(entries) :
        fs[entries[k].path].exists
        /\ fs[entries[k].path].modified > entries[k].last_modified}}

ShaderPath(groups, g) == groups[g].render_pipeline_record.shader_path

\* C4 (as claimed): one modification of a watched file causes a rebuild in
\* one poll only; the polls after it, with no further write, rebuild nothing.
C4_OncePerModification == \A p \in Paths : fired[p] <= 1

\* C5: a poll in which no watched file is strictly newer than its recorded
\* time (times equal, as in the first poll after add_path, included)
\* rebuilds nothing and changes no render group and no watcher entry.
C5_UnchangedPollIsNoOp ==
    [][(last' = "redraw" /\ Newer(file_watcher, files) = {}) =>
            /\ geos' = geos
            /\ file_watcher' = file_watcher
            /\ rebuilt' = [g \in 1..Len(geos) |-> 0]
            /\ fired' = fired]_vars

\* C5 witness: a poll has just run over two entries, none newer, one of them
\* registered after its file was written (times equal and not the initial
\* ones), with a group on that path.
C5_Witness ==
    /\ last = "redraw"
    /\ panic = ""
    /\ Len(file_watcher) = 2
    /\ Newer(file_watcher, files) = {}
    /\ \E e \in 1..2, g \in 1..Len(geos) :
          /\ files[file_watcher[e].path].exists
          /\ files[file_watcher[e].path].modified = file_watcher[e].last_modified
          /\ file_watcher[e].last_modified = 1
          /\ ShaderPath(geos, g) = file_watcher[e].path
          /\ rebuilt[g] = 0

\* C6 (as claimed): a poll that completes rebuilds exactly once every group
\* whose shader path is a changed path, and no other group, whatever entries
\* are registered.
C6_RebuildTargets ==
    [][(last' = "redraw" /\ panic' = "") =>
            \A g \in 1..Len(geos) :
                rebuilt'[g] = IF ShaderPath(geos, g) \in Newer(file_watcher, files)
                              THEN 1 ELSE 0]_vars

\* C7: a poll (with its rebuilds) replaces only the shader module and the
\* render pipeline of the groups it rebuilds; every other field of every
\* group, the instance records and buffer with them, and the list of groups
\* are as before.
C7_RebuildFrame ==
    [][last' = "redraw" =>
            /\ Len(geos') = Len(geos)
            /\ \A g \in 1..Len(geos) :
                  /\ geos'[g] =
                        [geos[g] EXCEPT
                            !.render_pipeline_record.shader_module =
                                geos'[g].render_pipeline_record.shader_module,
                            !.render_pipeline_record.render_pipeline =
                                geos'[g].render_pipeline_record.render_pipeline]
                  /\ rebuilt'[g] = 0 => geos'[g] = geos[g]]_vars

\* C7 witness: a poll has just rebuilt a group that holds an instance, next
\* to a group it did not rebuild.
C7_Witness ==
    /\ last = "redraw"
    /\ Len(geos) = 2
    /\ \E g, h \in 1..2 :
          /\ rebuilt[g] > 0
          /\ Len(Store(g).data) = 1
          /\ geos[g].render_pipeline_record.shader_module.source = "wgsl2"
          /\ rebuilt[h] = 0

\* C8 (as claimed): a failed reload (the file gone, unreadable or not valid
\* WGSL) is reported and the frame loop goes on; the process is not aborted.
C8_ReloadFailureIsolated ==
    last = "redraw" =>
        panic \notin {"metadata", "read_to_string", "create_shader_module"}

(***************************************************************************)
(* Properties of resizes and frames (SpecView).                            *)
(***************************************************************************)
\* C10: config holds the size of the latest resize (window.rs 159-160).
\* Every group's screen-size uniform, as a CPU value and as buffer contents,
\* equals that size, and its view matrix is the orthographic projection of
\* [-1,1]^3, in every state, so in every state a draw reads them in; the
\* frame a render submits is drawn at that size.
C10_NoStaleProjection ==
    /\ \A g \in 1..Len(geos) :
          /\ geos[g].screen_size_uniform.vec = <<F(config.width), F(config.height)>>
          /\ geos[g].screen_size_uniform.buffer.contents =
                << <<F(config.width), F(config.height)>> >>
          /\ geos[g].view_matrix_uniform.matrix =
                << <<One, Zero, Zero, Zero>>, <<Zero, One, Zero, Zero>>,
                   <<Zero, Zero, Q(1, 2), Zero>>, <<Zero, Zero, Q(1, 2), One>> >>
          /\ geos[g].view_matrix_uniform.buffer.contents =
                geos[g].view_matrix_uniform.matrix
    /\ (last = "redraw" /\ panic = "") =>
          /\ frame # None
          /\ frame[1].resolution = <<config.width, config.height>>
          /\ \A d \in 1..Len(frame[1].draws) : frame[1].draws[d].group \in 1..Len(geos)

\* C10 witness: a frame has just been drawn with two groups after a resize
\* to a size other than the initial one.
C10_Witness ==
    /\ last = "redraw"
    /\ panic = ""
    /\ Len(geos) = 2
    /\ <<config.width, config.height>> # InitialExtent
    /\ frame # None

(***************************************************************************)
(* Properties of recalc_screen_instances (SpecStore).                      *)
(***************************************************************************)
\* The screen transform of the rect (xy, wh) against an extent, written out:
\* location (2x/W - 1, 1 - 2y/H, 0), scale (2w/W, 2h/H, 1), no rotation.
ScreenTransformOf(xy, wh, extent) ==
    [pixel_rect |-> <<[xy |-> xy, wh |-> wh, extent |-> extent]>>,
     location |-> <<QSub(QMul(QDiv(F(xy[1]), F(extent[1])), Two), One),
                    QSub(One, QMul(QDiv(F(xy[2]), F(extent[2])), Two)),
                    Zero>>,
     rotation |-> <<Zero, Zero, Zero, One>>,
     scale |-> <<QMul(QDiv(F(wh[1]), F(extent[1])), Two),
                 QMul(QDiv(F(wh[2]), F(extent[2])), Two),
                 One>>]

\* Slot i (from 0) holds the same nine columns in both buffer contents.
SameSlot(a, b, i) ==
    \A k \in 0..8 : ColumnAt(a, i * 144 + 16 * k) = ColumnAt(b, i * 144 + 16 * k)

\* C11: a recalc against extent E gives every record with a cached rect the
\* screen transform of (rect.xy, rect.wh, E), with the rect cached at extent
\* E, and rewrites its slot; a record without a rect keeps its transform and
\* its slot; uv transform, color, order and count of all records, the bytes
\* past the last record and every other group are unchanged.
C11_RecalcPostcondition ==
    [][last' = "recalc" =>
        \E g \in 1..Len(geos), E \in Extents :
            LET old == geos[g].instance_buffer_manager
                new == geos'[g].instance_buffer_manager
            IN  /\ geos' = [geos EXCEPT ![g].instance_buffer_manager = new]
                /\ Len(new.data) = Len(old.data)
                /\ Len(new.buffer.contents) = Len(old.buffer.contents)
                /\ \A k \in 9 * Len(old.data) + 1 .. Len(old.buffer.contents) :
                      new.buffer.contents[k] = old.buffer.contents[k]
                /\ \A i \in 1..Len(old.data) :
                      /\ new.data[i].tex_transform = old.data[i].tex_transform
                      /\ new.data[i].color = old.data[i].color
                      /\ IF old.data[i].transform.pixel_rect # None
                         THEN LET pr == old.data[i].transform.pixel_rect[1]
                              IN  /\ new.data[i].transform =
                                        ScreenTransformOf(pr.xy, pr.wh, E)
                                  /\ SlotHolds(new.buffer.contents, i - 1, new.data[i])
                         ELSE /\ new.data[i] = old.data[i]
                              /\ SameSlot(new.buffer.contents, old.buffer.contents,
                                          i - 1)]_vars

\* C11 witness: a recalc against an extent other than the initial one has
\* just run on a store that holds a record with a rect (now cached at that
\* extent) and a record without one.
C11_Witness ==
    /\ last = "recalc"
    /\ Len(Store(1).data) = 2
    /\ Store(1).data[1].transform.pixel_rect # None
    /\ Store(1).data[1].transform = ScreenTransformOf(<<1, 1>>, <<2, 1>>, <<8, 4>>)
    /\ Store(1).data[2].transform.pixel_rect = None
    /\ <<config.width, config.height>> = InitialExtent

\* C12: in every store state and for every extent E, a second recalc against
\* E leaves the records and the buffer exactly as the first one left them.
C12_RecalcIdempotent ==
    \A g \in 1..Len(geos) : \A E \in Extents :
        recalc_screen_instances(recalc_screen_instances(Store(g), E), E)
            = recalc_screen_instances(Store(g), E)

\* C12 witness: a recalc against (8,4) has just run on a record with a rect
\* that was created against (4,2), and one more recalc against (8,4) gives
\* the same store.
C12_Witness ==
    /\ last = "recalc"
    /\ Len(Store(1).data) >= 1
    /\ \E i \in 1..Len(Store(1).data) :
          /\ Store(1).data[i].transform.pixel_rect # None
          /\ Store(1).data[i].transform.pixel_rect[1].extent = <<8, 4>>
    /\ <<config.width, config.height>> = <<4, 2>>
    /\ recalc_screen_instances(Store(1), <<8, 4>>) = Store(1)

\* C13: right after an add of a transform derived from rect R against extent
\* E, a recalc against the same E leaves that record (location, scale,
\* rotation, cached rect) and its buffer slot as the add left them.
C13_RecalcRoundTrip ==
    (last = "add" /\ panic = "") =>
        \A g \in 1..Len(geos) :
            LET n == Len(Store(g).data)
            IN  (n > 0 /\ Store(g).data[n].transform.pixel_rect # None) =>
                    LET inst == Store(g).data[n]
                        pr == inst.transform.pixel_rect[1]
                        after == recalc_screen_instances(Store(g), pr.extent)
                    IN  inst.transform = ScreenTransformOf(pr.xy, pr.wh, pr.extent) =>
                            /\ after.data[n].transform.location = inst.transform.location
                            /\ after.data[n].transform.scale = inst.transform.scale
                            /\ after.data[n].transform.rotation = inst.transform.rotation
                            /\ after.data[n].transform.pixel_rect
                                  = inst.transform.pixel_rect
                            /\ SameSlot(after.buffer.contents, Store(g).buffer.contents,
                                        n - 1)

\* C13 witness: a record with a rect has just been added against the extent
\* of a resized window, and a recalc against that extent returns the store
\* as it is.
C13_Witness ==
    /\ last = "add"
    /\ panic = ""
    /\ <<config.width, config.height>> = <<8, 4>>
    /\ LET n == Len(Store(1).data)
       IN  /\ n > 0
           /\ Store(1).data[n].transform = ScreenTransformOf(<<1, 1>>, <<2, 1>>, <<8, 4>>)
           /\ recalc_screen_instances(Store(1), <<8, 4>>).data[n] = Store(1).data[n]

(***************************************************************************)
(* Properties of translate (SpecStore).                                    *)
(***************************************************************************)
\* C15: a translate with an index below the length adds delta to the
\* location of that record only, rewrites the slot of that record only and
\* leaves every other record, every other byte and the rest of the group
\* unchanged; with an index not below the length it fails (index out of
\* bounds) and changes neither the records nor the buffer.
C15_TranslateOne ==
    [][last' = "translate" =>
        IF panic' # ""
        THEN panic' = "index out of bounds" /\ geos' = geos
        ELSE \E g \in 1..Len(geos) :
                LET old == geos[g].instance_buffer_manager
                    new == geos'[g].instance_buffer_manager
                IN  \E i \in 1..Len(old.data), d \in DeltaInputs :
                        LET l == old.data[i].transform.location
                        IN  /\ new.data =
                                  [old.data EXCEPT ![i].transform.location =
                                      <<QAdd(l[1], d[1]), QAdd(l[2], d[2]),
                                        QAdd(l[3], d[3])>>]
                            /\ Len(new.buffer.contents) = Len(old.buffer.contents)
                            /\ SlotHolds(new.buffer.contents, i - 1, new.data[i])
                            /\ \A k \in 1..Len(old.buffer.contents) :
                                  (k <= 9 * (i - 1) \/ k > 9 * i) =>
                                      new.buffer.contents[k] = old.buffer.contents[k]
                            /\ geos' = [geos EXCEPT ![g].instance_buffer_manager = new]]_vars

\* C15 witness: the second of two records has just been translated a second
\* time; the first is where it was added.
C15_Witness ==
    /\ last = "translate"
    /\ panic = ""
    /\ Len(Store(1).data) = 2
    /\ Store(1).data[1].transform.location = <<Zero, Zero, Zero>>
    /\ Store(1).data[2].transform.pixel_rect = None
    /\ Store(1).data[2].transform.location = <<One, Zero, Zero>>

(***************************************************************************)
(* Properties of instance indices (SpecIndex).                             *)
(***************************************************************************)
\* C14: an add returns the number of records there were before it, and that
\* index designates the added record; over every later step (add, translate,
\* recalc, resize, poll with shader rebuild) every index keeps designating a
\* record of the same color, uv transform and cached rect xy and wh: no
\* record is removed or moved, no group is removed, no count decreases.
C14_StableIndex ==
    [][/\ Len(geos') >= Len(geos)
       /\ \A g \in 1..Len(geos) :
             LET old == geos[g].instance_buffer_manager
                 new == geos'[g].instance_buffer_manager
             IN  /\ Len(new.data) >= Len(old.data)
                 /\ \A i \in 1..Len(old.data) :
                       /\ new.data[i].color = old.data[i].color
                       /\ new.data[i].tex_transform = old.data[i].tex_transform
                       /\ (new.data[i].transform.pixel_rect = None)
                             = (old.data[i].transform.pixel_rect = None)
                       /\ old.data[i].transform.pixel_rect # None =>
                             /\ new.data[i].transform.pixel_rect[1].xy
                                   = old.data[i].transform.pixel_rect[1].xy
                             /\ new.data[i].transform.pixel_rect[1].wh
                                   = old.data[i].transform.pixel_rect[1].wh
                 /\ (last' = "add" /\ panic' = "" /\ new # old) =>
                       /\ add_new_index(new) = Len(old.data)
                       /\ Len(new.data) = Len(old.data) + 1
                       /\ \E t \in TransformInputs(config) :
                             new.data[add_new_index(new) + 1]
                                = Instance(t, TexInput, Black)]_vars

\* C14 witness: a poll has just rebuilt the pipeline of a group whose store
\* holds two records, one with a rect before a translated one without,
\* after a resize.
C14_Witness ==
    /\ last = "redraw"
    /\ panic = ""
    /\ rebuilt[1] > 0
    /\ <<config.width, config.height>> = <<8, 4>>
    /\ Len(Store(1).data) = 2
    /\ Store(1).data[1].transform.pixel_rect # None
    /\ Store(1).data[2].transform.pixel_rect = None
    /\ Store(1).data[2].transform.location # Vec3Zero

(***************************************************************************)
(* Properties of a frame: poll, then draw.                                 *)
(***************************************************************************)
\* C16 (as claimed): a rendered frame holds exactly one indexed draw per
\* existing group, the g-th for group g, each of 6 indices and of as many
\* instances as that group's store holds.
C16_DrawPerGroup ==
    (last = "redraw" /\ panic = "") =>
        /\ frame # None
        /\ Len(frame[1].draws) = Len(geos)
        /\ \A g \in 1..Len(frame[1].draws) :
              /\ frame[1].draws[g].group = g
              /\ frame[1].draws[g].indices = 6
              /\ frame[1].draws[g].instances = Len(Store(g).data)

\* A group is built: its pipeline was created from its current shader
\* module, its pipeline layout and its target format.
Built(ig) ==
    LET rpr == ig.render_pipeline_record
    IN  /\ rpr.render_pipeline.layout = rpr.pipeline_layout
        /\ rpr.render_pipeline.vertex.module = rpr.shader_module
        /\ rpr.render_pipeline.fragment.module = rpr.shader_module
        /\ rpr.render_pipeline.fragment.targets = <<rpr.format>>

\* C17: every group is built in every state; the draws of a frame use the
\* pipelines the groups have after that frame's poll, so a group rebuilt by
\* the poll is drawn, in that frame, with a pipeline made from the source
\* the poll read.
C17_PollBeforeDraw ==
    /\ \A g \in 1..Len(geos) : Built(geos[g])
    /\ (last = "redraw" /\ panic = "") =>
          /\ frame # None
          /\ \A d \in 1..Len(frame[1].draws) :
                LET g == frame[1].draws[d].group
                IN  /\ frame[1].draws[d].pipeline
                          = geos[g].render_pipeline_record.render_pipeline
                    /\ rebuilt[g] > 0 =>
                          frame[1].draws[d].pipeline.vertex.module.source
                             = files[ShaderPath(geos, g)].source

\* C17 witness: a frame has just been drawn in which the poll rebuilt the
\* drawn group from a source written since the group was created.
C17_Witness ==
    /\ last = "redraw"
    /\ panic = ""
    /\ frame # None
    /\ rebuilt[frame[1].draws[1].group] > 0
    /\ frame[1].draws[1].pipeline.vertex.module.source = "wgsl2"
    /\ frame[1].draws[1].pipeline.label = "pipeline " \o ShaderPath(geos, 1)

(***************************************************************************)
(* Properties of the sub-sprite lookup (SpecAtlas).                        *)
(***************************************************************************)
\* The cluster the latest lookup was made on.
SubCluster == sheet.sheet_info.clusters[sub[1].cluster_index + 1]

\* C18 (as claimed): the column count a lookup uses is
\* floor(cluster_size.x / (sub_size.x + spacing.x)).
C18_ColumnsAreFloor ==
    sub # None =>
        sub[1].rc = SubCluster.cluster_size[1]
                        \div (SubCluster.sub_size[1] + SubCluster.spacing[1])

\* C18 (amended): the column count a lookup uses is the number of grid
\* steps 0, s, 2s, ... below cluster_size.x, s = sub_size.x + spacing.x > 0,
\* which is ceil(cluster_size.x / s): the floor when s divides
\* cluster_size.x, one more otherwise.
C18_ColumnsAreCeil ==
    sub # None =>
        LET s == SubCluster.sub_size[1] + SubCluster.spacing[1]
            w == SubCluster.cluster_size[1]
        IN  /\ s > 0
            /\ sub[1].rc = (w + s - 1) \div s
            /\ sub[1].rc = IF w % s = 0 THEN w \div s ELSE (w \div s) + 1

\* C18 witness: a lookup on the cluster of width 197 and step 33 has
\* returned; it used 6 columns.
C18_Witness ==
    /\ sub # None
    /\ SubCluster.cluster_size[1] = 197
    /\ SubCluster.sub_size[1] + SubCluster.spacing[1] = 33
    /\ sub[1].rc = 6

\* C19: a lookup that returns used row = sub_index div columns and col =
\* sub_index mod columns, and returns the uv transform of the rect with
\* origin offset + (col, row) * (sub_size + spacing), size sub_size and the
\* image dimensions as extent; on the 128x48 cluster of 16x16 sprites the
\* columns are 8 and sub_index 9 has origin (16,16).
C19_AtlasAddressing ==
    sub # None =>
        LET c == SubCluster
            columns == sub[1].rc
            row == sub[1].sub_index \div columns
            col == sub[1].sub_index % columns
            x == c.offset[1] + col * (c.sub_size[1] + c.spacing[1])
            y == c.offset[2] + row * (c.sub_size[2] + c.spacing[2])
            W == sheet.dimensions[1]
            H == sheet.dimensions[2]
        IN  /\ sub[1].transform =
                  [pixel_rect |-> <<[xy |-> <<x, y>>, wh |-> c.sub_size,
                                     extent |-> sheet.dimensions]>>,
                   location |-> <<Q(x, W), Q(y, H), Zero>>,
                   rotation |-> <<Zero, Zero, Zero, One>>,
                   scale |-> <<Q(c.sub_size[1], W), Q(c.sub_size[2], H), One>>]
            /\ (c.cluster_size = <<128, 48>> /\ c.sub_size = <<16, 16>>
                    /\ c.spacing = <<0, 0>> /\ c.offset = <<0, 0>>) =>
                  /\ columns = 8
                  /\ sub[1].sub_index = 9 =>
                        sub[1].transform.pixel_rect[1].xy = <<16, 16>>

\* C19 witness: the lookup of sub_index 9 on the 128x48 cluster has
\* returned, the cluster being the second of its sheet.
C19_Witness ==
    /\ sub # None
    /\ sub[1].cluster_index = 1
    /\ sub[1].sub_index = 9
    /\ SubCluster.cluster_size = <<128, 48>>
    /\ sub[1].transform.pixel_rect[1].xy = <<16, 16>>

\* C20 (as claimed): a lookup returns a transform only for a cluster_index
\* below the number of clusters and a sub_index below the cell count of the
\* cluster's grid (counting every cell that starts inside the cluster).
C20_IndexChecked ==
    sub # None =>
        /\ sub[1].cluster_index < Len(sheet.sheet_info.clusters)
        /\ sub[1].sub_index <
              StepByCount(0, SubCluster.cluster_size[1],
                          SubCluster.sub_size[1] + SubCluster.spacing[1])
              * StepByCount(0, SubCluster.cluster_size[2],
                            SubCluster.sub_size[2] + SubCluster.spacing[2])

\* C21 (as claimed): a lookup on a malformed cluster definition (horizontal
\* step sub_size.x + spacing.x of 0, or a width giving 0 columns) does not
\* abort: it ends without the step_by or the division panic.
C21_MalformedIsError ==
    last = "cluster_sub_transform" => panic \notin {"step_by", "divide by zero"}

(***************************************************************************)
(* Properties of the two rect transforms (SpecRect).                       *)
(***************************************************************************)
\* Where the vertex shader puts the model-space point (x, y, 0) under the
\* column-major matrix m: m * (x, y, 0, 1), first two components.
MapCorner(m, x, y) ==
    <<QAdd(QAdd(QMul(m[1][1], x), QMul(m[2][1], y)), m[4][1]),
      QAdd(QAdd(QMul(m[1][2], x), QMul(m[2][2], y)), m[4][2])>>

\* C22: the screen transform of a rect (x, y, w, h) against an extent
\* (W, H) with W, H > 0 caches the rect, has no rotation, translation
\* (2x/W - 1, 1 - 2y/H, 0) and scale (2w/W, 2h/H, 1); its matrix puts the
\* quad's corner (0,0) at (2x/W - 1, 1 - 2y/H) and its corner (1,-1) at
\* (2(x+w)/W - 1, 1 - 2(y+h)/H).
C22_ScreenTransform ==
    \A i \in 1..Len(Store(1).data) :
        LET t == Store(1).data[i].transform
        IN  /\ t.pixel_rect # None
            /\ t.pixel_rect[1] \in RectInputs
            /\ LET x == t.pixel_rect[1].xy[1]
                   y == t.pixel_rect[1].xy[2]
                   w == t.pixel_rect[1].wh[1]
                   h == t.pixel_rect[1].wh[2]
                   W == t.pixel_rect[1].extent[1]
                   H == t.pixel_rect[1].extent[2]
               IN  (W > 0 /\ H > 0) =>
                    /\ t.location = <<Q(2 * x - W, W), Q(H - 2 * y, H), Zero>>
                    /\ t.scale = <<Q(2 * w, W), Q(2 * h, H), One>>
                    /\ t.rotation = <<Zero, Zero, Zero, One>>
                    /\ UNIT_SQUARE_VERTICES[1].location = <<Zero, Zero, Zero>>
                    /\ UNIT_SQUARE_VERTICES[3].location = <<One, QNeg(One), Zero>>
                    /\ MapCorner(to_mat4(t), Zero, Zero)
                          = <<Q(2 * x - W, W), Q(H - 2 * y, H)>>
                    /\ MapCorner(to_mat4(t), One, QNeg(One))
                          = <<Q(2 * (x + w) - W, W), Q(H - 2 * (y + h), H)>>

\* C22 witness: the rect at (32,32) of size 32x32 against the 64x48 extent
\* has been added; its quad spans (0, -1/3) to (1, -5/3).
C22_Witness ==
    \E i \in 1..Len(Store(1).data) :
        LET t == Store(1).data[i].transform
        IN  /\ t.pixel_rect = Some(PixelRect(<<32, 32>>, <<32, 32>>, <<64, 48>>))
            /\ MapCorner(to_mat4(t), Zero, Zero) = <<Zero, Q(-1, 3)>>
            /\ MapCorner(to_mat4(t), One, QNeg(One)) = <<One, Q(-5, 3)>>

\* q lies in [0, 1].
InUnit(q) == ~QLess(q, Zero) /\ ~QLess(One, q)

\* C23: the uv transform of a rect (x, y, w, h) against an image (W, H)
\* caches the rect, has no rotation, translation (x/W, y/H, 0) and scale
\* (w/W, h/H, 1), with no Y flip: the texture corner (0,0) goes to
\* (x/W, y/H) and (1,1) to ((x+w)/W, (y+h)/H).  When the rect lies inside
\* the image (x+w <= W, y+h <= H, W, H > 0), every translation and scale
\* component, and translation + scale on each axis, lies in [0, 1].
C23_TexTransform ==
    \A i \in 1..Len(Store(1).data) :
        LET t == Store(1).data[i].tex_transform
        IN  /\ t.pixel_rect # None
            /\ t.pixel_rect[1] \in RectInputs
            /\ LET x == t.pixel_rect[1].xy[1]
                   y == t.pixel_rect[1].xy[2]
                   w == t.pixel_rect[1].wh[1]
                   h == t.pixel_rect[1].wh[2]
                   W == t.pixel_rect[1].extent[1]
                   H == t.pixel_rect[1].extent[2]
               IN  (W > 0 /\ H > 0) =>
                    /\ t.location = <<Q(x, W), Q(y, H), Zero>>
                    /\ t.scale = <<Q(w, W), Q(h, H), One>>
                    /\ t.rotation = <<Zero, Zero, Zero, One>>
                    /\ MapCorner(to_mat4(t), Zero, Zero) = <<Q(x, W), Q(y, H)>>
                    /\ MapCorner(to_mat4(t), One, One)
                          = <<Q(x + w, W), Q(y + h, H)>>
                    /\ (x + w <= W /\ y + h <= H) =>
                          \A k \in 1..3 :
                             /\ InUnit(t.location[k])
                             /\ InUnit(t.scale[k])
                             /\ k < 3 => InUnit(QAdd(t.location[k], t.scale[k]))

\* C23 witness: the rect at (32,0) of size 32x32 inside the 64x48 image has
\* been added; it touches the right edge, u runs from 1/2 to 1.
C23_Witness ==
    \E i \in 1..Len(Store(1).data) :
        LET t == Store(1).data[i].tex_transform
        IN  /\ t.pixel_rect = Some(PixelRect(<<32, 0>>, <<32, 32>>, <<64, 48>>))
            /\ t.location = <<Q(1, 2), Zero, Zero>>
            /\ QAdd(t.location[1], t.scale[1]) = One
            /\ t.scale[2] = Q(2, 3)

(***************************************************************************)
(* Properties of group creation (Spec).                                    *)
(***************************************************************************)
\* C24 (as claimed): creating a group whose shader file cannot be read
\* fails with an error handed back to the caller, who goes on running: the
\* creation never ends in the read_to_string panic.
C24_CreationFailureReturned ==
    last = "new_unit_square" => panic # "read_to_string"

(***************************************************************************)
(* Properties of batching (SpecRect).                                      *)
(***************************************************************************)
\* C25: a new group of capacity c counts 0 instances and every add that
\* returns (there are at most c) raises the count by one, so that after
\* k <= c adds it is k; and of two stored records whose rects were built
\* against the same extent, the one with the smaller xy.x has the smaller
\* x-translation.
C25_Batching ==
    /\ num_instances(geos, 1) = 0
    /\ [][(last' = "add" /\ panic' = "") =>
              /\ num_instances(geos', 1) = num_instances(geos, 1) + 1
              /\ num_instances(geos', 1) <= MaxRects]_vars
    /\ [](\A i, j \in 1..Len(Store(1).data) :
            LET a == Store(1).data[i].transform
                b == Store(1).data[j].transform
            IN  (/\ a.pixel_rect # None
                 /\ b.pixel_rect # None
                 /\ a.pixel_rect[1].extent = b.pixel_rect[1].extent
                 /\ a.pixel_rect[1].xy[1] < b.pixel_rect[1].xy[1])
                    => QLess(a.location[1], b.location[1]))

\* C25 witness: the rects at x = 0, 32, 64 of size 32x32 against 256x256
\* have been added in this order; the count is 3 and the x-translations
\* are -1, -3/4, -1/2.
C25_Witness ==
    /\ num_instances(geos, 1) = 3
    /\ \A i \in 1..3 :
          Store(1).data[i].transform.pixel_rect
              = Some(PixelRect(<<32 * (i - 1), 0>>, <<32, 32>>, <<256, 256>>))
    /\ Store(1).data[1].transform.location[1] = Q(-1, 1)
    /\ Store(1).data[2].transform.location[1] = Q(-3, 4)
    /\ Store(1).data[3].transform.location[1] = Q(-1, 2)

(***************************************************************************)
(* Properties of cached extents (SpecExtent).                              *)
(***************************************************************************)
\* C26 (as claimed): after every sequence of adds, resizes and recalcs,
\* those to a width or height of 0 included, every pixel rect cached on a
\* stored transform has extent.x > 0 and extent.y > 0.
C26_ExtentPositive ==
    \A g \in 1..Len(geos) :
        \A i \in 1..Len(Store(g).data) :
            \A t \in {Store(g).data[i].transform, Store(g).data[i].tex_transform} :
                t.pixel_rect # None =>
                    /\ t.pixel_rect[1].extent[1] > 0
                    /\ t.pixel_rect[1].extent[2] > 0

(***************************************************************************)
(* Properties of the mutexes (SpecLocks).                                  *)
(***************************************************************************)
\* C27: no operation uses the device, queue, surface or config outside its
\* mutex or locks a mutex its call chain already holds; between operations
\* the thread holds nothing but the config guard of the setup block; and
\* every operation (group creation, add, recalc, resize with update_view,
\* poll with shader reload, render with text prepare) returns holding
\* exactly the mutexes it was entered with.
C27_MutexDiscipline ==
    /\ [](locks.fault = "" /\ locks.held \subseteq {"config"})
    /\ [][last' \notin {"lock_config", "drop_config"}
              => locks'.held = locks.held]_vars

\* C27 witness: a redraw of the event loop has reloaded a group's shader and
\* submitted a frame, after a setup that created the group and added an
\* instance under the config guard and a resize; no mutex is held.
C27_Witness ==
    /\ last = "redraw"
    /\ frame # None
    /\ locks = NoLocks
    /\ \E g \in 1..Len(geos) :
          /\ rebuilt[g] > 0
          /\ Len(Store(g).data) > 0
    /\ <<config.width, config.height>> # InitialExtent

(***************************************************************************)
(* Properties of the rebuilt pipeline (SpecIndex).                         *)
(***************************************************************************)
\* C28 (as claimed): the pipeline a group has, rebuilt by a reload or not,
\* is configured as new_unit_square configures it in everything but the
\* shader module: same pipeline layout, same two vertex-buffer layouts,
\* same target format, same entry points, same primitive state (face
\* culling included), no depth-stencil, no multiview.
C28_RebuildSameConfiguration ==
    \A g \in 1..Len(geos) :
        LET rpr == geos[g].render_pipeline_record
            p == rpr.render_pipeline
            c == new_unit_square(1, rpr.format, config.width, config.height,
                                 rpr.shader_path, rpr.shader_module.source)
                     .render_pipeline_record.render_pipeline
        IN  /\ p.layout = c.layout
            /\ p.vertex.buffers = c.vertex.buffers
            /\ p.vertex.entry_point = c.vertex.entry_point
            /\ p.fragment.entry_point = c.fragment.entry_point
            /\ p.fragment.targets = c.fragment.targets
            /\ p.primitive = c.primitive
            /\ p.depth_stencil = c.depth_stencil
            /\ p.multiview = c.multiview

\* C29 (as claimed): a lookup that returns on a cluster with horizontal
\* step sub_size.x + spacing.x > 0 selected a column below the column count,
\* and the rect it returns spans, horizontally, from offset.x + col * step
\* to that + sub_size.x, inside [offset.x, offset.x + cluster_size.x].
C29_SubSpriteContained ==
    sub # None =>
        LET c == SubCluster
            step == c.sub_size[1] + c.spacing[1]
            col == sub[1].sub_index % sub[1].rc
            x == sub[1].transform.pixel_rect[1].xy[1]
        IN  step > 0 =>
                /\ col < sub[1].rc
                /\ x = c.offset[1] + col * step
                /\ c.offset[1] <= x
                /\ x + c.sub_size[1] <= c.offset[1] + c.cluster_size[1]

(***************************************************************************)
(* Properties of render on any group list (SpecView).                      *)
(***************************************************************************)
\* C30 (as claimed): a redraw, whether no group, one group or several
\* exist, completes without indexing the group list out of range, and its
\* frame includes the text layer.
C30_RenderSafe ==
    last = "redraw" =>
        /\ panic # "index out of bounds"
        /\ frame # None
        /\ frame[1].text

=============================================================================
